---- MODULE Spec2Model ----
(***************************************************************************)
(* Model of japanfinance_agent: the provider adapters (adapters.py) and    *)
(* the three aggregators of analysis.py (analyze_company, macro_snapshot,  *)
(* earnings_monitor) with their timeout guard and asyncio.gather barrier.  *)
(*                                                                         *)
(* One request runs per behaviour: a call of an aggregator, a direct call  *)
(* of an adapter, test_connections, or calls of check_available_sources.   *)
(* An action is the code                                                   *)
(* between two suspension points of the coroutine: the call up to its      *)
(* first await, the completion (or the timeout) of one awaited provider    *)
(* call, and the code after asyncio.gather up to the return statement.     *)
(***************************************************************************)
EXTENDS Integers, Sequences, FiniteSets, TLC

\* ------------------------------------------------------------------ bounds
\* Longest watchlist handed to earnings_monitor.
MaxCodes == 2
\* Most disclosure records one TDNET call returns.
MaxDisc == 2
\* Most companies one EDINET search returns.
MaxMatches == 2
\* Most tables one e-Stat search returns.
MaxTables == 2

\* --------------------------------------------------------- Python values
\* Every Python value that may be None is a record tagged by its type, so
\* that `is None`, isinstance and truthiness are computed, not assumed.
None == [t |-> "None"]
Str(s) == [t |-> "str", s |-> s]
List(items) == [t |-> "list", items |-> items]
Exception(cls, msg) == [t |-> "exc", cls |-> cls, msg |-> msg]

\* isinstance(v, BaseException)
IsException(v) == v.t = "exc"

\* bool(v): None, "" and [] are false, everything else is true.
Truthy(v) ==
    CASE v.t = "None" -> FALSE
      [] v.t = "str" -> v.s # ""
      [] v.t = "list" -> v.items # <<>>
      [] OTHER -> TRUE

\* Faulty variant of Or: the right operand wins whenever it is non-empty.
Or_overwrite(a, b) == IF Truthy(b) THEN b ELSE a

\* a or b
Or(a, b) == IF Truthy(a) THEN a ELSE b

\* seq[:n]
Take(seq, n) == SubSeq(seq, 1, IF Len(seq) < n THEN Len(seq) ELSE n)

\* How a coroutine ends: `return v` or `raise v`.
Return(v) == [t |-> "return", v |-> v]
Raise(v) == [t |-> "raise", v |-> v]

\* ------------------------------------------------- the providers (inputs)
\* What the backing client of one adapter call does.  "not_installed": the
\* package cannot be imported.  "import_error": the package imports but
\* loading the client from it (the statements between the availability check
\* and the try block) raises.  "construct_error": the client's constructor
\* raises.  "enter_error", "exit_error": entering, leaving the client's
\* context raises.  "client_error": the remote call raises.
\* "normalize_error": building the returned record from the client's answer
\* raises.  "ok": the client returns `data`.
NotInstalled == [b |-> "not_installed", data |-> None]
ImportFails == [b |-> "import_error", data |-> None]
ConstructFails == [b |-> "construct_error", data |-> None]
EnterFails == [b |-> "enter_error", data |-> None]
ClientFails == [b |-> "client_error", data |-> None]
NormalizeFails == [b |-> "normalize_error", data |-> None]
ExitFails == [b |-> "exit_error", data |-> None]
Ok(data) == [b |-> "ok", data |-> data]
Providers(dataSet) == {NotInstalled, ImportFails, ClientFails} \cup {Ok(d) : d \in dataSet}

\* Names a provider may report: the name fields are optional, so a name may
\* be missing or empty.
Names(n) == {None, Str(""), Str(n)}

\* Company objects of an EDINET search: the lists of at most MaxMatches
\* companies, the first of which has any name.
Company(e, n, tk) == [edinet_code |-> Str(e), name |-> n, ticker |-> tk]
OtherCompany == Company("E09999", Str("Other"), "9999")
MatchLists ==
    {<<>>} \cup
    { <<Company(e, n, "7203")>> \o [i \in 1..(len - 1) |-> OtherCompany] :
        e \in {"E02144"}, n \in Names("Toyota KK"), len \in 1..MaxMatches }

\* Line items of a statement table, as to_dicts() lists them: the lists of
\* len items in the table's order and in the reverse order.
LineItem(i) == [item |-> i]
LineItems(len) == {[i \in 1..len |-> LineItem(i)], [i \in 1..len |-> LineItem(len + 1 - i)]}

\* Financial statements of the EDINET client: the filing's company name and
\* the line items of the income statement and of the balance sheet.
StatementOf(n, income, balance) ==
    [company_name |-> n, income_statement |-> income, balance_sheet |-> balance]

\* The aggregators read only the filing's company name.
Statement(n) == StatementOf(n, <<LineItem(1), LineItem(2)>>, <<LineItem(1)>>)
Statements == {Statement(n) : n \in Names("Toyota Motor")}

\* Disclosure objects of the TDNET client: the lists of at most MaxDisc
\* disclosures.  The aggregators read the length and the first record's name.
Disclosure(n) == [company_name |-> n, title |-> "kessan"]
DisclosureLists ==
    {<<>>} \cup
    { <<Disclosure(n)>> \o [i \in 1..(len - 1) |-> Disclosure(Str("Other"))] :
        n \in Names("Toyota"), len \in 1..MaxDisc }

\* Quotes of the stock price client: None when there is no quote.
Quote(c) == [t |-> "quote", code |-> c]
Quotes == {None, Quote("7203")}

\* Tables of an e-Stat search and datasets of the BOJ client.
Table(i) == [id |-> i, name |-> "GDP"]
TableLists == {[i \in 1..len |-> Table(i)] : len \in 0..MaxTables}
Datasets == {[name |-> "fm01"]}

\* ------------------------------------------------------------- adapters.py
\* Each adapter is the outcome of its coroutine as a function of what the
\* backing client does.

\* Faulty variant of _is_available: every package is reported importable.
_is_available_always(p) == TRUE

\* __import__(package) raises ImportError iff the package is not installed.
_is_available(p) == p.b # "not_installed"

\* The import statement between the availability check and the try block
\* raises: the package is missing, or the client cannot be loaded from it.
ImportRaises(p) == p.b \in {"not_installed", "import_error"}

\* The failures raised inside `try: async with Client() as client: ...`.
CaughtInContext ==
    {"construct_error", "enter_error", "client_error", "normalize_error", "exit_error"}

\* The failures raised inside the try block of get_stock_price, which starts
\* after the client is constructed and opens no context.
CaughtInStockTry == {"client_error", "normalize_error"}

\* The `[:20]` of lines 70 and 71.
StatementCap == 20

\* Faulty variant of get_company_statements: the line items are passed on
\* whole.
get_company_statements_uncut(edinet_code, p) ==
    IF ~_is_available(p) THEN Return(None)
    ELSE IF ImportRaises(p) THEN Raise(Exception("ImportError", "edinet_mcp"))
    ELSE IF p.b \in CaughtInContext THEN Return(None)
    ELSE Return([t |-> "dict", source |-> "edinet",
                 company_name |-> p.data.company_name,
                 edinet_code |-> edinet_code,
                 income_statement |-> p.data.income_statement,
                 balance_sheet |-> p.data.balance_sheet])

get_company_statements(edinet_code, p) ==
    IF ~_is_available(p) THEN Return(None)
    ELSE IF ImportRaises(p) THEN Raise(Exception("ImportError", "edinet_mcp"))
    ELSE IF p.b \in CaughtInContext THEN Return(None)
    ELSE Return([t |-> "dict", source |-> "edinet",
                 company_name |-> p.data.company_name,
                 edinet_code |-> edinet_code,
                 income_statement |-> Take(p.data.income_statement, StatementCap),
                 balance_sheet |-> Take(p.data.balance_sheet, StatementCap)])

SearchCap == 10

search_companies_edinet(query, p) ==
    IF ~_is_available(p) THEN Return(List(<<>>))
    ELSE IF ImportRaises(p) THEN Raise(Exception("ImportError", "edinet_mcp"))
    ELSE IF p.b \in CaughtInContext THEN Return(List(<<>>))
    ELSE Return(List([i \in 1..Len(Take(p.data, SearchCap)) |->
                        [t |-> "dict",
                         edinet_code |-> p.data[i].edinet_code,
                         name |-> p.data[i].name,
                         ticker |-> p.data[i].ticker]]))

get_company_disclosures(code, p) ==
    IF ~_is_available(p) THEN Return(List(<<>>))
    ELSE IF ImportRaises(p) THEN Raise(Exception("ImportError", "tdnet_disclosure_mcp"))
    ELSE IF p.b \in CaughtInContext THEN Return(List(<<>>))
    ELSE Return(List([i \in 1..Len(p.data) |->
                        [t |-> "dict", source |-> "tdnet",
                         company_name |-> p.data[i].company_name,
                         title |-> p.data[i].title]]))

get_latest_disclosures(limit, p) ==
    IF ~_is_available(p) THEN Return(List(<<>>))
    ELSE IF ImportRaises(p) THEN Raise(Exception("ImportError", "tdnet_disclosure_mcp"))
    ELSE IF p.b \in CaughtInContext THEN Return(List(<<>>))
    ELSE Return(List([i \in 1..Len(p.data) |->
                        [t |-> "dict", source |-> "tdnet",
                         company_name |-> p.data[i].company_name,
                         title |-> p.data[i].title]]))

\* Faulty variant of get_news: a headline is returned.
get_news_headline(query) == Return(List(<<[t |-> "dict", source |-> "news", title |-> query]>>))

get_news(query) == Return(List(<<>>))

get_stock_price(code, p) ==
    IF ~_is_available(p) THEN Return(None)
    ELSE IF ImportRaises(p) THEN Raise(Exception("ImportError", "yfinance_mcp"))
    ELSE IF p.b = "construct_error" THEN Raise(Exception("RuntimeError", "YfinanceClient"))
    ELSE IF p.b \in CaughtInStockTry THEN Return(None)
    ELSE IF p.data = None THEN Return(None)
    ELSE Return([t |-> "dict", source |-> "yfinance", code |-> p.data.code])

get_estat_data(keyword, p) ==
    IF ~_is_available(p) THEN Return(List(<<>>))
    ELSE IF ImportRaises(p) THEN Raise(Exception("ImportError", "estat_mcp"))
    ELSE IF p.b \in CaughtInContext THEN Return(List(<<>>))
    ELSE Return(List([i \in 1..Len(p.data) |->
                        [t |-> "dict", source |-> "estat",
                         stats_id |-> p.data[i].id,
                         title |-> p.data[i].name]]))

get_boj_dataset(name, p) ==
    IF ~_is_available(p) THEN Return(None)
    ELSE IF ImportRaises(p) THEN Raise(Exception("ImportError", "boj_mcp"))
    ELSE IF p.b \in CaughtInContext THEN Return(None)
    ELSE Return([t |-> "dict", source |-> "boj", name |-> name])

\* ---- the backing client of one call
\* Every adapter but get_stock_price opens its client with `async with`.
OpensContext(a) == a # "get_stock_price"

\* The steps adapter a has run on its backing client when it ends: the
\* constructor, the context entry, the remote call and the context exit,
\* which also runs when the body of `async with` raises.
ClientSteps(a, p) ==
    IF ~_is_available(p) \/ ImportRaises(p) THEN <<>>
    ELSE IF p.b = "construct_error" THEN <<"construct">>
    ELSE IF ~OpensContext(a) THEN <<"construct", "call">>
    ELSE IF p.b = "enter_error" THEN <<"construct", "enter">>
    ELSE <<"construct", "enter", "call", "exit">>

\* Faulty variant of CancelledSteps: the cancellation skips the context exit.
CancelledSteps_noExit(a) ==
    IF OpensContext(a) THEN <<"construct", "enter", "call">> ELSE <<"construct", "call">>

\* The steps adapter a has run on its backing client when asyncio.wait_for
\* cancels it at its awaited remote call: the CancelledError is raised
\* inside the body of `async with`, so the context exit runs;
\* get_stock_price has no such statement around its await.
CancelledSteps(a) ==
    IF OpensContext(a) THEN <<"construct", "enter", "call", "exit">>
    ELSE <<"construct", "call">>

\* ------------------------------------------------------------ analysis.py
VARIABLES
    fn,            \* the aggregator that was called, "idle" before the call
    pc,            \* where its coroutine is: idle, search, gather, done, raised
    args,          \* the arguments of the call
    edinet_code,   \* local of analyze_company
    company_name,  \* local of analyze_company
    companies,     \* local of analyze_company: what the search returned
    tasks,         \* the awaitables handed to asyncio.gather, in order; in
                   \* test_connections the adapter calls awaited so far
    order,         \* indexes of `tasks` in the order they finished
    result,        \* the returned record, or the exception that escaped
    env,           \* adapters.py called directly: what the backing clients do
    client,        \* adapters.py called directly: the steps run on the client
    previous,      \* check_available_sources: the call before the last one
    surface,       \* server.py, cli.py: the request a tool or command handles
    other          \* the locals of a second aggregator call of the same event
                   \* loop while that call is not the one running

vars == <<fn, pc, args, edinet_code, company_name, companies, tasks, order, result,
          env, client, previous, surface, other>>

\* No second call.
NoRequest == [fn |-> "none"]

\* No tool or command is handling a request.
NoSurface == [cmd |-> "none"]

\* An aggregator is entered by a direct call, or by the call a tool or a
\* command has reached with these arguments.
Entered(f, a) ==
    \/ pc = "idle"
    \/ pc = "delegated" /\ surface.call.fn = f /\ surface.call.args = a

\* Per-task timeout in seconds.
_TASK_TIMEOUT == 15

\* The wrapped coroutine has not ended; asyncio.wait_for has cancelled it.
Pending == [t |-> "pending", v |-> None]
Cancelled == [t |-> "cancelled", v |-> None]

\* Faulty variant of _with_timeout: the coroutine is awaited without a deadline.
_with_timeout_unguarded(key) ==
    [key |-> key, st |-> "running", guarded |-> FALSE, v |-> None, op |-> Pending,
     ret |-> Pending, client |-> <<>>]

\* asyncio.wait_for around a coroutine: the awaitable is pending and has a
\* deadline; `op` is the outcome of the wrapped coroutine, `ret` the outcome
\* of _with_timeout and `v` what gather stores for it once it is done;
\* `client` are the steps the coroutine has run on its backing client.
_with_timeout(key) ==
    [key |-> key, st |-> "running", guarded |-> TRUE, v |-> None, op |-> Pending,
     ret |-> Pending, client |-> <<>>]

\* The value _with_timeout returns when the deadline expires.
\* The deadline is the float 15.0, formatted by the f-string as "15.0".
TimeoutError ==
    Exception("TimeoutError", "timed out after " \o ToString(_TASK_TIMEOUT) \o ".0s")

\* Faulty variant of WaitFor: the expiry of the deadline is not caught.
WaitFor_uncaught(op) ==
    IF op = Cancelled THEN Raise(Exception("TimeoutError", "")) ELSE op

\* The try/except around asyncio.wait_for: the outcome of the wrapped
\* coroutine is passed on, returned or raised; the expiry of the deadline,
\* after which wait_for has cancelled the coroutine, is returned as a value.
WaitFor(op) == IF op = Cancelled THEN Return(TimeoutError) ELSE op

\* What asyncio.gather(..., return_exceptions=True) stores for a coroutine
\* that ended with outcome o: the returned value or the exception object.
GatherValue(o) == o.v

\* results = dict(zip(keys, results_list)); results.get(key, default)
Get(key, default) ==
    IF \E i \in 1..Len(tasks) : tasks[i].key = key
    THEN tasks[CHOOSE i \in 1..Len(tasks) : tasks[i].key = key].v
    ELSE default

\* Faulty variant of AllDone: the gather returns with the first call that ends.
AllDone_firstCompleted == \E i \in 1..Len(tasks) : tasks[i].st = "done"

\* `await asyncio.gather(...)` returns: every awaitable is done.
AllDone == \A i \in 1..Len(tasks) : tasks[i].st = "done"

InSeq(x, seq) == \E i \in 1..Len(seq) : seq[i] = x

\* Faulty variant of SourceName: the price block appends the literal of the
\* disclosures block.
SourceName_copied(key) ==
    CASE key = "statements" -> "edinet"
      [] key = "disclosures" -> "tdnet"
      [] key = "news" -> "news"
      [] key = "stock_price" -> "tdnet"
      [] key = "estat" -> "estat"
      [] key = "boj" -> "boj"

\* The literal appended to sources_used for the call registered under key.
SourceName(key) ==
    CASE key = "statements" -> "edinet"
      [] key = "disclosures" -> "tdnet"
      [] key = "news" -> "news"
      [] key = "stock_price" -> "jquants"
      [] key = "estat" -> "estat"
      [] key = "boj" -> "boj"

\* Faulty variant of IsPresent: the `is not None` test is left out.
IsPresent_noNoneTest(raw) == ~IsException(raw)

\* The test of a singular lookup: neither an exception nor None.
IsPresent(raw) == ~IsException(raw) /\ raw # None

\* d.get("company_name") of a record; every record of the adapters has the key.
CompanyNameOf(d) == IF d.t = "dict" THEN d.company_name ELSE None

\* The narrowing of a list lookup: an exception becomes the empty list.
AsList(raw) == IF IsException(raw) THEN List(<<>>) ELSE raw

\* ---- analyze_company
Codes == {"7203", "6758"}
EdinetArgs == {None, Str(""), Str("E02144")}

\* Faulty variant of AnalyzeTasks: statements is registered unconditionally.
AnalyzeTasks_alwaysStatements(ec) ==
    <<_with_timeout("statements"), _with_timeout("disclosures"), _with_timeout("news"),
      _with_timeout("stock_price")>>

\* tasks, lines 103-117: statements only if edinet_code is truthy.
AnalyzeTasks(ec) ==
    (IF Truthy(ec) THEN <<_with_timeout("statements")>> ELSE <<>>)
    \o <<_with_timeout("disclosures"), _with_timeout("news"), _with_timeout("stock_price")>>

\* Faulty variant of FirstMatch: companies[-1].
FirstMatch_last(cs) == cs.items[Len(cs.items)]

\* companies[0]
FirstMatch(cs) == cs.items[1]

call_analyze_company(code, ec) ==
    /\ Entered("analyze_company", [code |-> code, edinet_code |-> ec])
    /\ surface' = NoSurface
    /\ fn' = "analyze_company"
    /\ args' = [code |-> code, edinet_code |-> ec]
    /\ company_name' = None
    /\ edinet_code' = ec
    /\ order' = <<>>
    /\ UNCHANGED <<companies, result, env, client, previous, other>>
    /\ IF ec = None
       THEN pc' = "search" /\ tasks' = <<>>
       ELSE pc' = "gather" /\ tasks' = AnalyzeTasks(ec)

\* `await adapters.search_companies_edinet(code)` ends with the outcome the
\* adapter gives for provider p; lines 97-121.
search_returns(p) ==
    /\ fn = "analyze_company"
    /\ pc = "search"
    /\ LET o == search_companies_edinet(args.code, p) IN
       IF o.t = "raise"
       THEN /\ pc' = "raised"
            /\ result' = o.v
            /\ UNCHANGED <<companies, edinet_code, company_name, tasks>>
       ELSE /\ companies' = o.v
            /\ edinet_code' = IF Truthy(o.v) THEN FirstMatch(o.v).edinet_code ELSE edinet_code
            /\ company_name' = IF Truthy(o.v) THEN FirstMatch(o.v).name ELSE company_name
            /\ tasks' = AnalyzeTasks(edinet_code')
            /\ pc' = "gather"
            /\ UNCHANGED result
    /\ UNCHANGED <<fn, args, order, env, client, previous, surface, other>>

\* Faulty variant of CompanyAnalysis: code is taken from the resolved
\* identifier when there is one.
CompanyAnalysis_wrongCode(code, ec, name, statements, disclosures, news, stock_price, sources_used) ==
    [code |-> IF Truthy(ec) THEN ec.s ELSE code, edinet_code |-> ec, company_name |-> name,
     statements |-> statements, disclosures |-> disclosures, news |-> news,
     stock_price |-> stock_price, sources_used |-> sources_used]

\* The constructor call of lines 161-170.
CompanyAnalysis(code, ec, name, statements, disclosures, news, stock_price, sources_used) ==
    [code |-> code, edinet_code |-> ec, company_name |-> name,
     statements |-> statements, disclosures |-> disclosures, news |-> news,
     stock_price |-> stock_price, sources_used |-> sources_used]

\* One block of lines 125-159, on the locals gathered in acc.
AnalyzeStep(key, acc) ==
    CASE key = "statements" ->
           LET raw_stmt == Get("statements", None) IN
           IF IsPresent(raw_stmt)
           THEN [acc EXCEPT !.statements = raw_stmt,
                            !.sources_used = Append(@, SourceName(key)),
                            !.company_name = Or(@, CompanyNameOf(raw_stmt))]
           ELSE acc
      [] key = "disclosures" ->
           LET disclosures == AsList(Get("disclosures", List(<<>>))) IN
           IF Truthy(disclosures)
           THEN [acc EXCEPT !.disclosures = disclosures,
                            !.sources_used = Append(@, SourceName(key)),
                            !.company_name = Or(@, CompanyNameOf(disclosures.items[1]))]
           ELSE [acc EXCEPT !.disclosures = disclosures]
      [] key = "news" ->
           LET news == AsList(Get("news", List(<<>>))) IN
           IF Truthy(news)
           THEN [acc EXCEPT !.news = news, !.sources_used = Append(@, SourceName(key))]
           ELSE [acc EXCEPT !.news = news]
      [] key = "stock_price" ->
           LET raw_stock == Get("stock_price", None) IN
           IF IsPresent(raw_stock)
           THEN [acc EXCEPT !.stock_price = raw_stock,
                            !.sources_used = Append(@, SourceName(key))]
           ELSE acc

\* Faulty variant of AnalyzeOrder: the blocks run in completion order.
AnalyzeOrder_completion == [i \in 1..Len(order) |-> tasks[order[i]].key]

\* The order in which the blocks of lines 125-159 run.
AnalyzeOrder == <<"statements", "disclosures", "news", "stock_price">>

RECURSIVE AnalyzeFold(_, _)
AnalyzeFold(keys, acc) ==
    IF keys = <<>> THEN acc ELSE AnalyzeFold(Tail(keys), AnalyzeStep(Head(keys), acc))

\* Lines 122-170: after gather, classify every outcome and return.
analyze_company_returns ==
    /\ fn = "analyze_company"
    /\ pc = "gather"
    /\ AllDone
    /\ LET acc == AnalyzeFold(AnalyzeOrder,
                     [sources_used |-> <<>>, company_name |-> company_name,
                      statements |-> None, disclosures |-> List(<<>>),
                      news |-> List(<<>>), stock_price |-> None])
       IN /\ result' = CompanyAnalysis(args.code, edinet_code, acc.company_name,
                           acc.statements, acc.disclosures, acc.news,
                           acc.stock_price, acc.sources_used)
          /\ company_name' = acc.company_name
    /\ pc' = "done"
    /\ UNCHANGED <<fn, args, edinet_code, companies, tasks, order, env, client, previous, surface,
                   other>>

\* ---- macro_snapshot
BojArgs == {None, Str(""), Str("fm01")}

\* Faulty variant of MacroTasks: the BOJ call is launched without the test
\* of boj_dataset.
MacroTasks_alwaysBoj(boj_dataset) ==
    <<_with_timeout("estat"), _with_timeout("news"), _with_timeout("boj")>>

\* tasks, lines 193-198: the BOJ call only if boj_dataset is truthy.
MacroTasks(boj_dataset) ==
    <<_with_timeout("estat"), _with_timeout("news")>>
    \o (IF Truthy(boj_dataset) THEN <<_with_timeout("boj")>> ELSE <<>>)

call_macro_snapshot(keyword, boj_dataset) ==
    /\ Entered("macro_snapshot", [keyword |-> keyword, boj_dataset |-> boj_dataset])
    /\ surface' = NoSurface
    /\ fn' = "macro_snapshot"
    /\ args' = [keyword |-> keyword, boj_dataset |-> boj_dataset]
    /\ tasks' = MacroTasks(boj_dataset)
    /\ order' = <<>>
    /\ pc' = "gather"
    /\ UNCHANGED <<edinet_code, company_name, companies, result, env, client, previous, other>>

\* Faulty variant of MacroSnapshot: only the first table is kept.
MacroSnapshot_firstTable(estat_data, boj_data, news, sources_used) ==
    [estat_data |-> List(Take(estat_data.items, 1)), boj_data |-> boj_data, news |-> news,
     sources_used |-> sources_used]

\* The constructor call of lines 230-235.
MacroSnapshot(estat_data, boj_data, news, sources_used) ==
    [estat_data |-> estat_data, boj_data |-> boj_data, news |-> news,
     sources_used |-> sources_used]

\* Lines 202-235.
macro_snapshot_returns ==
    /\ fn = "macro_snapshot"
    /\ pc = "gather"
    /\ AllDone
    /\ LET estat_data == AsList(Get("estat", List(<<>>)))
           raw_boj == Get("boj", None)
           news == AsList(Get("news", List(<<>>)))
           s1 == IF Truthy(estat_data) THEN <<SourceName("estat")>> ELSE <<>>
           s2 == IF IsPresent(raw_boj) THEN Append(s1, SourceName("boj")) ELSE s1
           s3 == IF Truthy(news) THEN Append(s2, SourceName("news")) ELSE s2
       IN result' = MacroSnapshot(estat_data,
                                  IF IsPresent(raw_boj) THEN raw_boj ELSE None,
                                  news, s3)
    /\ pc' = "done"
    /\ UNCHANGED <<fn, args, edinet_code, company_name, companies, tasks, order, env,
                   client, previous, surface, other>>

\* ---- earnings_monitor
RECURSIVE SeqsUpTo(_, _)
SeqsUpTo(S, n) ==
    IF n = 0 THEN {<<>>}
    ELSE LET shorter == SeqsUpTo(S, n - 1)
         IN shorter \cup {Append(q, x) : q \in {r \in shorter : Len(r) = n - 1}, x \in S}

Watchlists == SeqsUpTo(Codes, MaxCodes)

\* Faulty variant of EarningsTasks: an empty watchlist is replaced by a
\* default one.
EarningsTasks_atLeastOne(codes) ==
    IF codes = <<>> THEN <<_with_timeout("7203")>>
    ELSE [i \in 1..Len(codes) |-> _with_timeout(codes[i])]

\* task_list, lines 258-261: one guarded call per element of codes.
EarningsTasks(codes) == [i \in 1..Len(codes) |-> _with_timeout(codes[i])]

call_earnings_monitor(codes) ==
    /\ Entered("earnings_monitor", [codes |-> codes])
    /\ surface' = NoSurface
    /\ fn' = "earnings_monitor"
    /\ args' = [codes |-> codes]
    /\ tasks' = EarningsTasks(codes)
    /\ order' = <<>>
    /\ pc' = "gather"
    /\ UNCHANGED <<edinet_code, company_name, companies, result, env, client, previous, other>>

EarningsEntry(code, name, disclosures, metrics) ==
    [code |-> code, company_name |-> name, disclosures |-> disclosures,
     metrics |-> metrics]

\* Faulty variant of EntryOf: codes and results are paired in completion order.
EntryOf_completion(i) ==
    LET disclosures == AsList(tasks[order[i]].v) IN
    EarningsEntry(args.codes[order[i]],
                  IF Truthy(disclosures) THEN CompanyNameOf(disclosures.items[1]) ELSE None,
                  disclosures, None)

\* Faulty variant of EntryOf: company_name is initialised before the loop, so
\* an entry without disclosures inherits the name of the entry before it.
RECURSIVE EntryOf_nameCarried(_)
EntryOf_nameCarried(i) ==
    LET disclosures == AsList(tasks[i].v) IN
    EarningsEntry(args.codes[i],
                  IF Truthy(disclosures) THEN CompanyNameOf(disclosures.items[1])
                  ELSE IF i = 1 THEN None ELSE EntryOf_nameCarried(i - 1).company_name,
                  disclosures, None)

\* The body of the loop of lines 265-285 for the i-th pair of zip(codes, results).
EntryOf(i) ==
    LET disclosures == AsList(tasks[i].v) IN
    EarningsEntry(args.codes[i],
                  IF Truthy(disclosures) THEN CompanyNameOf(disclosures.items[1]) ELSE None,
                  disclosures, None)

\* Faulty variant of TotalAfter: an entry with disclosures counts as one.
RECURSIVE TotalAfter_entries(_)
TotalAfter_entries(n) ==
    IF n = 0 THEN 0
    ELSE TotalAfter_entries(n - 1) + (IF Truthy(EntryOf(n).disclosures) THEN 1 ELSE 0)

\* total_disclosures after the first n iterations of the loop.
RECURSIVE TotalAfter(_)
TotalAfter(n) ==
    IF n = 0 THEN 0
    ELSE TotalAfter(n - 1) + (IF Truthy(EntryOf(n).disclosures)
                              THEN Len(EntryOf(n).disclosures.items) ELSE 0)

\* Faulty variant of EarningsSources: the name is appended inside the loop,
\* once for every entry with disclosures.
EarningsSources_perEntry(total_disclosures) ==
    [i \in 1..Cardinality({j \in 1..Len(tasks) : Truthy(EntryOf(j).disclosures)}) |-> "tdnet"]

\* sources_used, lines 254 and 287-288.
EarningsSources(total_disclosures) == IF total_disclosures > 0 THEN <<"tdnet">> ELSE <<>>

\* The constructor call of lines 290-294.
EarningsMonitor(entries, total_disclosures, sources_used) ==
    [companies |-> entries, total_disclosures |-> total_disclosures,
     sources_used |-> sources_used]

\* Lines 262-294.
earnings_monitor_returns ==
    /\ fn = "earnings_monitor"
    /\ pc = "gather"
    /\ AllDone
    /\ LET n == Len(args.codes)
           total_disclosures == TotalAfter(n)
       IN result' = EarningsMonitor([i \in 1..n |-> EntryOf(i)], total_disclosures,
                        EarningsSources(total_disclosures))
    /\ pc' = "done"
    /\ UNCHANGED <<fn, args, edinet_code, company_name, companies, tasks, order, env,
                   client, previous, surface, other>>

\* ---- the awaited calls
\* The providers the i-th awaitable may meet.
ProvidersFor(i) ==
    IF fn = "earnings_monitor" THEN Providers(DisclosureLists)
    ELSE CASE tasks[i].key = "statements" -> Providers(Statements)
           [] tasks[i].key = "disclosures" -> Providers(DisclosureLists)
           [] tasks[i].key = "news" -> {Ok(None)}
           [] tasks[i].key = "stock_price" -> Providers(Quotes)
           [] tasks[i].key = "estat" -> Providers(TableLists)
           [] tasks[i].key = "boj" -> Providers(Datasets)

\* The adapter coroutine wrapped by the i-th awaitable, with its arguments.
AdapterCall(i, p) ==
    IF fn = "earnings_monitor" THEN get_company_disclosures(tasks[i].key, p)
    ELSE CASE tasks[i].key = "statements" -> get_company_statements(edinet_code, p)
           [] tasks[i].key = "disclosures" -> get_company_disclosures(args.code, p)
           [] tasks[i].key = "news" -> get_news(args)
           [] tasks[i].key = "stock_price" -> get_stock_price(args.code, p)
           [] tasks[i].key = "estat" -> get_estat_data(args.keyword, p)
           [] tasks[i].key = "boj" -> get_boj_dataset(args.boj_dataset, p)

\* The name of the adapter wrapped by the i-th awaitable.
AdapterOf(i) ==
    IF fn = "earnings_monitor" THEN "get_company_disclosures"
    ELSE CASE tasks[i].key = "statements" -> "get_company_statements"
           [] tasks[i].key = "disclosures" -> "get_company_disclosures"
           [] tasks[i].key = "news" -> "get_news"
           [] tasks[i].key = "stock_price" -> "get_stock_price"
           [] tasks[i].key = "estat" -> "get_estat_data"
           [] tasks[i].key = "boj" -> "get_boj_dataset"

\* The steps the i-th coroutine runs on its backing client; get_news has none.
TaskClient(i, p) ==
    IF AdapterOf(i) = "get_news" THEN <<>> ELSE ClientSteps(AdapterOf(i), p)

\* get_news has no await: its awaitable is done before any deadline.
HasSuspensionPoint(i) == fn = "earnings_monitor" \/ tasks[i].key # "news"

\* The wrapped coroutine ends before the deadline: _with_timeout passes its
\* outcome on and gather stores it.
task_completes(i, p) ==
    /\ pc = "gather"
    /\ tasks[i].st = "running"
    /\ tasks' = [tasks EXCEPT ![i].st = "done", ![i].op = AdapterCall(i, p),
                                ![i].ret = WaitFor(AdapterCall(i, p)),
                                ![i].v = GatherValue(WaitFor(AdapterCall(i, p))),
                                ![i].client = TaskClient(i, p)]
    /\ order' = Append(order, i)
    /\ UNCHANGED <<fn, pc, args, edinet_code, company_name, companies, result, env,
                   client, previous, surface, other>>

\* Faulty variant of task_times_out: one deadline for the whole gather, so
\* the expiry ends every call that is still pending.
task_times_out_shared(i) ==
    /\ pc = "gather"
    /\ tasks[i].st = "running"
    /\ tasks[i].guarded
    /\ HasSuspensionPoint(i)
    /\ tasks' = [j \in 1..Len(tasks) |->
                    IF tasks[j].st = "running" /\ HasSuspensionPoint(j)
                    THEN [tasks[j] EXCEPT !.st = "done", !.op = Cancelled,
                                          !.ret = WaitFor(Cancelled),
                                          !.v = GatherValue(WaitFor(Cancelled)),
                                          !.client = CancelledSteps(AdapterOf(j))]
                    ELSE tasks[j]]
    /\ order' = order \o SelectSeq([j \in 1..Len(tasks) |-> j],
                                   LAMBDA j : tasks[j].st = "running" /\ HasSuspensionPoint(j))
    /\ UNCHANGED <<fn, pc, args, edinet_code, company_name, companies, result, env,
                   client, previous, surface, other>>

\* The deadline of asyncio.wait_for expires first: _with_timeout returns
\* the TimeoutError as a value (lines 25-26).
task_times_out(i) ==
    /\ pc = "gather"
    /\ tasks[i].st = "running"
    /\ tasks[i].guarded
    /\ HasSuspensionPoint(i)
    /\ tasks' = [tasks EXCEPT ![i].st = "done", ![i].op = Cancelled,
                                ![i].ret = WaitFor(Cancelled),
                                ![i].v = GatherValue(WaitFor(Cancelled)),
                                ![i].client = CancelledSteps(AdapterOf(i))]
    /\ order' = Append(order, i)
    /\ UNCHANGED <<fn, pc, args, edinet_code, company_name, companies, result, env,
                   client, previous, surface, other>>

\* ------------------------------------------ adapters.py, called directly
\* The coroutines of adapters.py that wrap a backing client.
Adapters ==
    {"get_company_statements", "search_companies_edinet", "get_company_disclosures",
     "get_latest_disclosures", "get_stock_price", "get_estat_data", "get_boj_dataset"}

\* What the backing client of adapter a may answer.
AdapterData(a) ==
    CASE a = "get_company_statements" -> Statements
      [] a = "search_companies_edinet" -> MatchLists
      [] a \in {"get_company_disclosures", "get_latest_disclosures"} -> DisclosureLists
      [] a = "get_stock_price" -> Quotes
      [] a = "get_estat_data" -> TableLists
      [] a = "get_boj_dataset" -> Datasets

\* What the backing client of adapter a may do: every step of the adapter
\* may raise.
AdapterProviders(a) ==
    {NotInstalled, ImportFails, ConstructFails, ClientFails, NormalizeFails}
      \cup (IF OpensContext(a) THEN {EnterFails, ExitFails} ELSE {})
      \cup {Ok(d) : d \in AdapterData(a)}

\* The argument of the direct call.
AdapterArg(a) ==
    CASE a = "get_company_statements" -> Str("E02144")
      [] a = "get_latest_disclosures" -> 20
      [] a = "get_estat_data" -> "GDP"
      [] a = "get_boj_dataset" -> Str("fm01")
      [] OTHER -> "7203"

\* The coroutine of adapter a.
Adapter(a, arg, p) ==
    CASE a = "get_company_statements" -> get_company_statements(arg, p)
      [] a = "search_companies_edinet" -> search_companies_edinet(arg, p)
      [] a = "get_company_disclosures" -> get_company_disclosures(arg, p)
      [] a = "get_latest_disclosures" -> get_latest_disclosures(arg, p)
      [] a = "get_stock_price" -> get_stock_price(arg, p)
      [] a = "get_estat_data" -> get_estat_data(arg, p)
      [] a = "get_boj_dataset" -> get_boj_dataset(arg, p)

\* The adapter ends before its first await: at the availability check, at
\* the import statement or at the constructor.
EndsBeforeAwait(p) == ~_is_available(p) \/ ImportRaises(p) \/ p.b = "construct_error"

\* How the coroutine with outcome o ends for its caller.
EndOf(o) == IF o.t = "raise" THEN "raised" ELSE "done"

\* A direct call of adapter a, up to its first await or, if it has none on
\* this path, to its end.
call_adapter(a, p) ==
    /\ pc = "idle"
    /\ fn' = a
    /\ args' = [arg |-> AdapterArg(a)]
    /\ env' = [adapter \in {a} |-> p]
    /\ IF EndsBeforeAwait(p)
       THEN /\ client' = ClientSteps(a, p)
            /\ pc' = EndOf(Adapter(a, AdapterArg(a), p))
            /\ result' = Adapter(a, AdapterArg(a), p).v
       ELSE /\ client' = <<"construct">>
            /\ pc' = "await"
            /\ result' = None
    /\ UNCHANGED <<edinet_code, company_name, companies, tasks, order, previous, surface,
                   other>>

\* The awaited client operation ends, by returning or by raising, and the
\* adapter runs to its end.
adapter_returns ==
    /\ fn \in Adapters
    /\ pc = "await"
    /\ client' = ClientSteps(fn, env[fn])
    /\ pc' = EndOf(Adapter(fn, args.arg, env[fn]))
    /\ result' = Adapter(fn, args.arg, env[fn]).v
    /\ UNCHANGED <<fn, args, env, edinet_code, company_name, companies, tasks,
                   order, previous, surface, other>>

\* ---- check_available_sources
\* The keys of the `sources` dict of lines 299-305, in insertion order.
Sources == <<"edinet", "tdnet", "estat", "boj", "stock">>

\* The `sources` dict of lines 299-305.
SourcePackage(name) ==
    CASE name = "edinet" -> "edinet_mcp"
      [] name = "tdnet" -> "tdnet_disclosure_mcp"
      [] name = "estat" -> "estat_mcp"
      [] name = "boj" -> "boj_mcp"
      [] name = "stock" -> "yfinance_mcp"

\* Faulty variant of check_available_sources: the last source is left out.
check_available_sources_noStock(e) ==
    [name \in {Sources[i] : i \in 1..(Len(Sources) - 1)} |->
        _is_available(e[SourcePackage(name)])]

\* The dict comprehension of line 306, in environment e.
check_available_sources(e) ==
    [name \in {Sources[i] : i \in 1..Len(Sources)} |-> _is_available(e[SourcePackage(name)])]

\* An installed package; the availability check does not read what its
\* client answers.
Installed(pkg) == Ok(IF pkg \in {"boj_mcp", "yfinance_mcp"} THEN None ELSE <<>>)

\* The environments of an availability check: each package is installed or not.
InstallEnvs ==
    { [pkg \in {SourcePackage(Sources[i]) : i \in 1..Len(Sources)} |->
         IF pkg \in missing THEN NotInstalled ELSE Installed(pkg)] :
        missing \in SUBSET {SourcePackage(Sources[i]) : i \in 1..Len(Sources)} }

\* check_available_sources() in environment e.  It has no await, so the
\* whole call is one step; it may be called again, in any environment.
call_check_available_sources(e) ==
    /\ pc = "idle" \/ fn = "check_available_sources"
    /\ fn' = "check_available_sources"
    /\ pc' = "done"
    /\ previous' = IF fn = "check_available_sources" THEN [env |-> env, v |-> result] ELSE None
    /\ env' = e
    /\ result' = check_available_sources(e)
    /\ UNCHANGED <<args, edinet_code, company_name, companies, tasks, order, client, surface,
                   other>>

\* ---- test_connections
\* A dict under construction: its items in insertion order.
Dict(items) == [t |-> "dict", items |-> items]

\* The keys of dict d in insertion order.
Keys(d) == SelectSeq(Sources, LAMBDA name : name \in DOMAIN d)

\* f"ok ({len(v)} results)" and f"error: {e}"
OkResults(v) == "ok (" \o ToString(Len(v.items)) \o " results)"
ErrorStatus(exc) == "error: " \o exc.msg

\* The try statement of lines 319-335 around the probe with outcome o.
ProbeStatus(o) == IF o.t = "raise" THEN ErrorStatus(o.v) ELSE OkResults(o.v)

\* Faulty variant of Status: the probe runs without the test of is_available.
Status_noInstallTest(source, e) ==
    CASE source = "edinet" -> ProbeStatus(search_companies_edinet("Toyota", e["edinet_mcp"]))
      [] source = "tdnet" -> ProbeStatus(get_latest_disclosures(1, e["tdnet_disclosure_mcp"]))
      [] source = "estat" -> ProbeStatus(get_estat_data("GDP", e["estat_mcp"]))
      [] source \in {"boj", "stock"} -> "ok (installed)"

\* The body of the loop of lines 314-335 for one source: the status string
\* stored under its name.
Status(source, e) ==
    IF ~check_available_sources(e)[source] THEN "not installed"
    ELSE CASE source = "edinet" ->
                ProbeStatus(search_companies_edinet("Toyota", e["edinet_mcp"]))
           [] source = "tdnet" ->
                ProbeStatus(get_latest_disclosures(1, e["tdnet_disclosure_mcp"]))
           [] source = "estat" -> ProbeStatus(get_estat_data("GDP", e["estat_mcp"]))
           [] source \in {"boj", "stock"} -> "ok (installed)"

\* The adapter call of lines 321, 324 and 330 for a probed source: the
\* awaited coroutine with its outcome and the steps on its backing client.
ProbeCall(source, e) ==
    LET a == CASE source = "edinet" -> "search_companies_edinet"
               [] source = "tdnet" -> "get_latest_disclosures"
               [] source = "estat" -> "get_estat_data"
        o == CASE source = "edinet" -> search_companies_edinet("Toyota", e["edinet_mcp"])
               [] source = "tdnet" -> get_latest_disclosures(1, e["tdnet_disclosure_mcp"])
               [] source = "estat" -> get_estat_data("GDP", e["estat_mcp"])
    IN  [key |-> source, st |-> "done", guarded |-> FALSE, v |-> o.v, op |-> o, ret |-> o,
         client |-> ClientSteps(a, e[SourcePackage(source)])]

\* Faulty variant of Probes: the probe runs before the test of is_available.
Probes_noInstallTest(source, e) ==
    IF source \in {"boj", "stock"} THEN <<>> ELSE <<ProbeCall(source, e)>>

\* The adapter calls one iteration of the loop of lines 314-335 makes: none
\* after `continue`, none in the branch of boj and stock.
Probes(source, e) ==
    IF ~check_available_sources(e)[source] \/ source \in {"boj", "stock"} THEN <<>>
    ELSE <<ProbeCall(source, e)>>

\* What a probed package may do; the lists differ by their length alone.
ProbeProviders(dataSet) ==
    {NotInstalled, ImportFails, ClientFails} \cup {Ok(d) : d \in dataSet}
ProbeMatches == {d \in MatchLists : d = <<>> \/ d[1].name = Str("Toyota KK")}
ProbeDisclosures == {d \in DisclosureLists : d = <<>> \/ d[1].company_name = Str("Toyota")}

\* The environments of test_connections.
ProbeEnvs ==
    { [pkg \in {SourcePackage(Sources[i]) : i \in 1..Len(Sources)} |->
         CASE pkg = "edinet_mcp" -> edinet
           [] pkg = "tdnet_disclosure_mcp" -> tdnet
           [] pkg = "estat_mcp" -> estat
           [] pkg = "boj_mcp" -> boj
           [] pkg = "yfinance_mcp" -> stock] :
        edinet \in ProbeProviders(ProbeMatches),
        tdnet \in ProbeProviders(ProbeDisclosures),
        estat \in ProbeProviders(TableLists),
        boj \in {NotInstalled, Installed("boj_mcp")},
        stock \in {NotInstalled, Installed("yfinance_mcp")} }

\* test_connections() in environment e up to the loop: results = {} and the
\* availability map, which has no await.
call_test_connections(e) ==
    /\ pc = "idle"
    /\ fn' = "test_connections"
    /\ pc' = "loop"
    /\ env' = e
    /\ result' = Dict(<<>>)
    /\ UNCHANGED <<args, edinet_code, company_name, companies, tasks, order,
                   client, previous, surface, other>>

\* One iteration of the loop over available.items(): the next source's
\* status is stored in results.
test_connections_step ==
    /\ fn = "test_connections"
    /\ pc = "loop"
    /\ Len(result.items) < Len(Keys(check_available_sources(env)))
    /\ LET source == Keys(check_available_sources(env))[Len(result.items) + 1]
       IN /\ result' = Dict(Append(result.items,
                                   [source |-> source, status |-> Status(source, env)]))
          /\ tasks' = tasks \o Probes(source, env)
    /\ UNCHANGED <<fn, pc, args, env, edinet_code, company_name, companies, order,
                   client, previous, surface, other>>

\* The loop is exhausted: return results.
test_connections_returns ==
    /\ fn = "test_connections"
    /\ pc = "loop"
    /\ Len(result.items) = Len(Keys(check_available_sources(env)))
    /\ pc' = "done"
    /\ UNCHANGED <<fn, args, env, edinet_code, company_name, companies, tasks, order, result,
                   client, previous, surface, other>>

\* ---------------------------------------------------- server.py and cli.py
\* A string sent by a caller is a sequence of characters, so that the
\* patterns are matched and the lengths are counted, not assumed.
Text(chars) == [t |-> "str", chars |-> chars]

\* The line feed, and U+FF17 FULLWIDTH DIGIT SEVEN, a decimal digit outside ASCII.
LF == "LF"
FullWidth7 == "FW7"
AsciiDigits == {"0", "1", "2", "3", "4", "5", "6", "7", "8", "9"}

\* `\d` of a str pattern matches every Unicode decimal digit.
IsDecimalDigit(c) == c \in AsciiDigits \cup {FullWidth7}

\* `$` of a pattern compiled without flags matches at the end of the string
\* and before a line feed that ends the string.
AtEnd(chars, i) == i = Len(chars) + 1 \/ (i = Len(chars) /\ chars[i] = LF)

\* `\d{n}` matched at position i.
DigitsAt(chars, i, n) ==
    i + n - 1 <= Len(chars) /\ \A k \in i..(i + n - 1) : IsDecimalDigit(chars[k])

\* re.compile(r"^\d{4}$").match, re.compile(r"^E\d{5}$").match
_CODE_RE(chars) == DigitsAt(chars, 1, 4) /\ AtEnd(chars, 5)
_EDINET_CODE_RE(chars) ==
    Len(chars) >= 1 /\ chars[1] = "E" /\ DigitsAt(chars, 2, 5) /\ AtEnd(chars, 7)
_PERIOD_RE(chars) == DigitsAt(chars, 1, 4) /\ AtEnd(chars, 5)

_MAX_WATCHLIST == 20

\* str.strip() leaves nothing: every character is white space.
IsBlank(chars) == \A k \in 1..Len(chars) : chars[k] \in {" ", LF}

\* Faulty variant of TooLong: a keyword of 200 characters is rejected.
TooLong_from200(chars) == Len(chars) >= 200

\* len(keyword) > 200
TooLong(chars) == Len(chars) > 200

\* The Python string of a sequence of characters, and the argument an
\* aggregator receives for an optional string.
RECURSIVE Join(_)
Join(chars) ==
    IF Len(chars) = 0 THEN ""
    ELSE IF Len(chars) = 1 THEN chars[1]
    ELSE Join(SubSeq(chars, 1, Len(chars) \div 2))
           \o Join(SubSeq(chars, Len(chars) \div 2 + 1, Len(chars)))
Arg(text) == IF text = None THEN None ELSE Str(Join(text.chars))

\* json.dumps({"error": ...}): the structured error value of a tool.
Error(msg) == [t |-> "dict", error |-> msg]

\* The handler reaches `await f(...)`: `args` are the arguments the model of
\* f keeps, `rest` the arguments it does not keep.
Delegate(f, a, rest) == [t |-> "call", call |-> [fn |-> f, args |-> a, rest |-> rest]]
NoCall == [fn |-> "none"]

\* ---- server.py: the tools up to their await
analyze_japanese_company(code, ec, period) ==
    IF ~_CODE_RE(code.chars) THEN Return(Error("Invalid stock code"))
    ELSE IF ec # None /\ ~_EDINET_CODE_RE(ec.chars)
         THEN Return(Error("Invalid EDINET code"))
    ELSE IF period # None /\ ~_PERIOD_RE(period.chars)
         THEN Return(Error("Invalid period"))
    ELSE Delegate("analyze_company",
                  [code |-> Join(code.chars), edinet_code |-> Arg(ec)],
                  [period |-> Arg(period)])

get_macro_snapshot(keyword) ==
    IF keyword.chars = <<>> \/ IsBlank(keyword.chars)
    THEN Return(Error("keyword must not be empty"))
    ELSE IF TooLong(keyword.chars) THEN Return(Error("keyword too long"))
    ELSE Delegate("macro_snapshot",
                  [keyword |-> Join(keyword.chars), boj_dataset |-> None], [t |-> "none"])

monitor_earnings(codes) ==
    IF codes = <<>> THEN Return(Error("codes list must not be empty"))
    ELSE IF Len(codes) > _MAX_WATCHLIST THEN Return(Error("Too many codes"))
    ELSE IF \E i \in 1..Len(codes) : ~_CODE_RE(codes[i].chars)
         THEN Return(Error("Invalid stock codes"))
    ELSE Delegate("earnings_monitor",
                  [codes |-> [i \in 1..Len(codes) |-> Join(codes[i].chars)]], [t |-> "none"])

\* ---- cli.py: the commands up to asyncio.run
\* click.BadParameter raised by a callback: click ends the command with a
\* usage error before its body runs.
BadParameter(msg) == Raise(Exception("BadParameter", msg))

\* The callback of the argument `code`: True iff it raises.
_validate_code(value) == ~_CODE_RE(value.chars)

\* The callback of the argument `codes`: True iff it raises.
_validate_codes(value) ==
    Len(value) > 20 \/ \E i \in 1..Len(value) : ~_CODE_RE(value[i].chars)

analyze(code, ec, period) ==
    IF _validate_code(code) THEN BadParameter("not a valid 4-digit stock code")
    ELSE Delegate("analyze_company",
                  [code |-> Join(code.chars), edinet_code |-> Arg(ec)],
                  [period |-> Arg(period)])

macro(keyword, boj_dataset) ==
    Delegate("macro_snapshot",
             [keyword |-> Join(keyword.chars), boj_dataset |-> Arg(boj_dataset)],
             [t |-> "none"])

\* `required=True` with nargs=-1: click refuses an empty tuple.
monitor(codes) ==
    IF codes = <<>> THEN Raise(Exception("MissingParameter", "CODES"))
    ELSE IF _validate_codes(codes) THEN BadParameter("codes")
    ELSE Delegate("earnings_monitor",
                  [codes |-> [i \in 1..Len(codes) |-> Join(codes[i].chars)]], [t |-> "none"])

\* ---- the requests
Repeat(c, n) == [i \in 1..n |-> c]

CodeInputs ==
    { Text(<<"7", "2", "0", "3">>), Text(<<"6", "7", "5", "8">>), Text(<<"7", "2", "0">>),
      Text(<<"7", "2", "0", "3", "1">>), Text(<<"7", "2", "0", "a">>),
      Text(<<"7", "2", "0", "3", LF>>), Text(<<FullWidth7, "2", "0", "3">>), Text(<<>>) }

EdinetInputs ==
    { None, Text(<<"E", "0", "2", "1", "4", "4">>), Text(<<"A", "0", "2", "1", "4", "4">>),
      Text(<<"e", "0", "2", "1", "4", "4">>), Text(<<"E", "0", "2", "1", "4">>),
      Text(<<"E", "0", "2", "1", "4", "4", "5">>), Text(<<"E", "0", "2", "1", "4", "4", LF>>),
      Text(<<>>) }

PeriodInputs ==
    { None, Text(<<"2", "0", "2", "5">>), Text(<<"2", "0", "2">>),
      Text(<<"2", "0", "2", "5", "5">>), Text(<<"F", "Y", "2", "5">>) }

KeywordInputs ==
    { Text(<<>>), Text(<<" ">>), Text(<<" ", LF, " ">>), Text(<<"G", "D", "P">>),
      Text(<<" ", "G", "D", "P">>), Text(Repeat("x", 200)), Text(Repeat("x", 201)) }

BojInputs == {None, Text(<<>>), Text(<<"f", "m", "0", "1">>)}

\* The watchlists of at most MaxCodes codes, and the watchlists at the limit.
WatchlistInputs ==
    SeqsUpTo(CodeInputs, MaxCodes)
      \cup {Repeat(Text(<<"7", "2", "0", "3">>), n) : n \in {_MAX_WATCHLIST, _MAX_WATCHLIST + 1}}
      \cup {Append(Repeat(Text(<<"7", "2", "0", "3">>), _MAX_WATCHLIST - 1), c) : c \in CodeInputs}

Requests ==
    {[cmd |-> "analyze_japanese_company", code |-> c, edinet_code |-> e, period |-> y] :
        c \in CodeInputs, e \in EdinetInputs, y \in PeriodInputs}
      \cup {[cmd |-> "get_macro_snapshot", keyword |-> k] : k \in KeywordInputs}
      \cup {[cmd |-> "monitor_earnings", codes |-> w] : w \in WatchlistInputs}
      \cup {[cmd |-> "analyze", code |-> c, edinet_code |-> e, period |-> y] :
              c \in CodeInputs, e \in EdinetInputs, y \in PeriodInputs}
      \cup {[cmd |-> "macro", keyword |-> k, boj_dataset |-> b] :
              k \in KeywordInputs, b \in BojInputs}
      \cup {[cmd |-> "monitor", codes |-> w] : w \in WatchlistInputs}

\* The tool or command of request r, run up to its await.
Handler(r) ==
    CASE r.cmd = "analyze_japanese_company" ->
            analyze_japanese_company(r.code, r.edinet_code, r.period)
      [] r.cmd = "get_macro_snapshot" -> get_macro_snapshot(r.keyword)
      [] r.cmd = "monitor_earnings" -> monitor_earnings(r.codes)
      [] r.cmd = "analyze" -> analyze(r.code, r.edinet_code, r.period)
      [] r.cmd = "macro" -> macro(r.keyword, r.boj_dataset)
      [] r.cmd = "monitor" -> monitor(r.codes)

\* A tool or a command handles request r: it ends with an error, or it
\* reaches the call of its aggregator.
handle(r) ==
    /\ pc = "idle"
    /\ fn' = r.cmd
    /\ pc' = CASE Handler(r).t = "call" -> "delegated"
               [] Handler(r).t = "raise" -> "raised"
               [] Handler(r).t = "return" -> "done"
    /\ result' = IF Handler(r).t = "call" THEN None ELSE Handler(r).v
    /\ surface' = [cmd |-> r.cmd, req |-> r,
                   call |-> IF Handler(r).t = "call" THEN Handler(r).call ELSE NoCall]
    /\ UNCHANGED <<args, edinet_code, company_name, companies, tasks, order, env, client,
                   previous, other>>

\* ------------------------------------------------------------ specification
Init ==
    /\ fn = "idle"
    /\ pc = "idle"
    /\ args = None
    /\ edinet_code = None
    /\ company_name = None
    /\ companies = None
    /\ tasks = <<>>
    /\ order = <<>>
    /\ result = None
    /\ env = None
    /\ client = <<>>
    /\ previous = None
    /\ surface = NoSurface
    /\ other = NoRequest

Next ==
    \/ \E code \in Codes, ec \in EdinetArgs : call_analyze_company(code, ec)
    \/ \E p \in Providers(MatchLists) : search_returns(p)
    \/ analyze_company_returns
    \/ \E boj_dataset \in BojArgs : call_macro_snapshot("GDP", boj_dataset)
    \/ macro_snapshot_returns
    \/ \E codes \in Watchlists : call_earnings_monitor(codes)
    \/ earnings_monitor_returns
    \/ pc = "gather"
         /\ \E i \in 1..Len(tasks) : \E p \in ProvidersFor(i) : task_completes(i, p)
    \/ pc = "gather" /\ \E i \in 1..Len(tasks) : task_times_out(i)
    \/ pc = "idle" /\ \E a \in Adapters : \E p \in AdapterProviders(a) : call_adapter(a, p)
    \/ adapter_returns
    \/ fn \in {"idle", "check_available_sources"}
         /\ \E e \in InstallEnvs : call_check_available_sources(e)
    \/ pc = "idle" /\ \E e \in ProbeEnvs : call_test_connections(e)
    \/ test_connections_step
    \/ test_connections_returns
    \/ pc = "idle" /\ \E r \in Requests : handle(r)

Spec == Init /\ [][Next]_vars

\* The event loop runs every coroutine that can run: an awaitable without a
\* suspension point finishes, a deadline that is reached fires, and the
\* code after gather runs once every awaitable is done.  A provider call is
\* not bound to answer.
Immediate == \E i \in 1..Len(tasks) : ~HasSuspensionPoint(i) /\ task_completes(i, Ok(None))
Deadline == \E i \in 1..Len(tasks) : task_times_out(i)
Returns == analyze_company_returns \/ macro_snapshot_returns \/ earnings_monitor_returns

FairSpec ==
    Spec /\ WF_vars(Immediate) /\ WF_vars(Deadline) /\ WF_vars(Returns)

\* ------------------------------------------------------------------ claims
Returned(f) == fn = f /\ pc = "done"

\* The value gather stored for the call registered under key, None if the
\* call was not launched.
Outcome(key) == Get(key, None)

\* The guarded call under key ended in success with non-empty content.
Succeeded(key) == ~IsException(Outcome(key)) /\ Truthy(Outcome(key))

\* The guarded call under key failed, timed out or returned the absent value.
Failed(key) == ~Succeeded(key)

NoDuplicates(seq) == \A i, j \in 1..Len(seq) : seq[i] = seq[j] => i = j

\* C1: analyze_company never fails: whatever the adapter calls (company
\* search, statements, disclosures, price) return or raise, no exception
\* escapes to the caller.
C1_NoExceptionEscapes == fn = "analyze_company" => pc # "raised"

\* C2: analyze_company called without edinet_code eventually ends, even if a
\* provider operation it invokes never completes.
C2_AnalyzeEventuallyReturns ==
    (fn = "analyze_company" /\ args.edinet_code = None) ~> (pc \in {"done", "raised"})

\* C3: earnings_monitor and macro_snapshot eventually return even if their
\* provider calls never complete, and a call that hit its deadline is absent
\* data in the result.
C3_TimedOutIsAbsent ==
    /\ Returned("macro_snapshot") =>
         /\ Outcome("estat") = TimeoutError =>
              result.estat_data = List(<<>>) /\ ~InSeq("estat", result.sources_used)
         /\ Outcome("boj") = TimeoutError =>
              result.boj_data = None /\ ~InSeq("boj", result.sources_used)
    /\ Returned("earnings_monitor") =>
         \A i \in 1..Len(tasks) :
            tasks[i].v = TimeoutError =>
              /\ result.companies[i].disclosures = List(<<>>)
              /\ result.companies[i].company_name = None

C3_MacroAndEarningsReturn ==
    /\ [](C3_TimedOutIsAbsent)
    /\ (fn \in {"macro_snapshot", "earnings_monitor"}) ~> (pc = "done")

C3_Witness ==
    /\ Returned("earnings_monitor")
    /\ Len(tasks) >= 2
    /\ \A i \in 1..Len(tasks) : tasks[i].v = TimeoutError
    /\ result.total_disclosures = 0

\* C4: in every result of analyze_company a source name is in sources_used
\* iff its guarded call ended in success with non-empty content, which is
\* iff its record is in the result; a failed or timed out call contributes
\* neither a name nor a record.
C4_SourcesIffSuccess ==
    Returned("analyze_company") =>
      /\ InSeq("edinet", result.sources_used) <=> result.statements # None
      /\ InSeq("edinet", result.sources_used) <=> Succeeded("statements")
      /\ InSeq("tdnet", result.sources_used) <=> result.disclosures # List(<<>>)
      /\ InSeq("tdnet", result.sources_used) <=> Succeeded("disclosures")
      /\ InSeq("jquants", result.sources_used) <=> result.stock_price # None
      /\ InSeq("jquants", result.sources_used) <=> Succeeded("stock_price")
      /\ result.statements = (IF Succeeded("statements") THEN Outcome("statements") ELSE None)
      /\ result.disclosures =
           (IF Succeeded("disclosures") THEN Outcome("disclosures") ELSE List(<<>>))
      /\ result.stock_price = (IF Succeeded("stock_price") THEN Outcome("stock_price") ELSE None)

C4_Witness ==
    /\ Returned("analyze_company")
    /\ Succeeded("statements")
    /\ Outcome("disclosures") = TimeoutError
    /\ IsException(Outcome("stock_price")) /\ Outcome("stock_price") # TimeoutError
    /\ result.sources_used = <<"edinet">>

\* C5: if every provider call of analyze_company(code) fails, returns absent
\* or times out, the call does not raise and the result has empty
\* sources_used and disclosures and absent edinet_code, company_name,
\* statements and stock_price.
C5_SearchFailed == pc = "raised" \/ (pc = "done" /\ ~Truthy(companies))

C5_AllFailGivesEmptyResult ==
    ( /\ fn = "analyze_company"
      /\ args.edinet_code = None
      /\ C5_SearchFailed
      /\ \A i \in 1..Len(tasks) : Failed(tasks[i].key) )
    => /\ pc = "done"
       /\ result.sources_used = <<>>
       /\ result.edinet_code = None
       /\ result.company_name = None
       /\ result.statements = None
       /\ result.stock_price = None
       /\ result.disclosures = List(<<>>)

\* C6: in every result of the three aggregators each source name occurs at
\* most once in sources_used.
C6_NoDuplicateSources ==
    (fn \in {"analyze_company", "macro_snapshot", "earnings_monitor"} /\ pc = "done") =>
      NoDuplicates(result.sources_used)

C6_Witness ==
    /\ Returned("analyze_company")
    /\ Succeeded("statements") /\ Succeeded("disclosures") /\ Succeeded("stock_price")
    /\ Len(result.sources_used) = 3

\* C7: sources_used of analyze_company is fixed by the outcomes alone: the
\* names of the sources that succeeded, statements before disclosures before
\* price, whatever the order in which the calls finished.
C7_Contributed(name) ==
    CASE name = "edinet" -> Succeeded("statements")
      [] name = "tdnet" -> Succeeded("disclosures")
      [] name = "news" -> Succeeded("news")
      [] name = "jquants" -> Succeeded("stock_price")

C7_OrderIsRegistrationOrder ==
    Returned("analyze_company") =>
      /\ result.sources_used = SelectSeq(<<"edinet", "tdnet", "news", "jquants">>, C7_Contributed)
      /\ (Succeeded("statements") /\ Succeeded("disclosures") /\ Failed("stock_price"))
           => result.sources_used = <<"edinet", "tdnet">>

C7_Witness ==
    /\ Returned("analyze_company")
    /\ Len(tasks) = 4
    /\ tasks[order[1]].key = "stock_price"
    /\ tasks[order[2]].key = "disclosures"
    /\ tasks[order[4]].key = "statements"
    /\ result.sources_used = <<"edinet", "tdnet", "jquants">>

\* C8: the code field of the result of analyze_company equals the input code.
C8_CodePassthrough == Returned("analyze_company") => result.code = args.code

C8_Witness ==
    /\ Returned("analyze_company")
    /\ args.code = "6758"
    /\ Truthy(companies) /\ companies.items[1].ticker = "7203"
    /\ result.code = "6758"

\* C9: a supplied edinet_code is returned as given and the company search is
\* never called; without one, the first match of the search gives the
\* result's edinet_code and the resolved name; without a match the result's
\* edinet_code is absent.
C9_Resolution ==
    fn = "analyze_company" =>
      /\ args.edinet_code # None =>
           /\ pc # "search" /\ companies = None
           /\ pc = "done" => result.edinet_code = args.edinet_code
      /\ (args.edinet_code = None /\ pc \in {"gather", "done"} /\ Truthy(companies)) =>
           /\ edinet_code = companies.items[1].edinet_code
           /\ pc = "gather" => company_name = companies.items[1].name
           /\ pc = "done" =>
                /\ result.edinet_code = companies.items[1].edinet_code
                /\ Truthy(companies.items[1].name) =>
                     result.company_name = companies.items[1].name
      /\ (args.edinet_code = None /\ pc = "done" /\ ~Truthy(companies)) =>
           result.edinet_code = None

C9_Witness ==
    /\ Returned("analyze_company")
    /\ args.edinet_code = None
    /\ Len(companies.items) >= 2
    /\ companies.items[1].edinet_code # companies.items[Len(companies.items)].edinet_code
    /\ result.edinet_code = Str("E02144")
    /\ result.company_name = Str("Toyota KK")
    /\ Succeeded("statements") /\ Succeeded("disclosures")

\* C10 as stated: company_name is the name resolved by the search if any;
\* otherwise the statements record's company_name if the statements call
\* succeeded; otherwise the first disclosure's company_name if disclosures is
\* non-empty; otherwise absent.  A missing and an empty name both count as
\* absent here.
C10_SameName(a, b) == a = b \/ (~Truthy(a) /\ ~Truthy(b))

C10_SearchName ==
    IF args.edinet_code = None /\ Truthy(companies) THEN companies.items[1].name ELSE None

C10_PriorityAsStated ==
    Returned("analyze_company") =>
      C10_SameName(result.company_name,
         IF Truthy(C10_SearchName) THEN C10_SearchName
         ELSE IF Succeeded("statements") THEN Outcome("statements").company_name
         ELSE IF Succeeded("disclosures") THEN Outcome("disclosures").items[1].company_name
         ELSE None)

\* C10 amended: company_name is the first non-empty name among the search's
\* first match, the statements record (if the call succeeded) and the first
\* disclosure (if disclosures is non-empty), in this order; a source whose
\* name is missing or empty is passed over, and without any non-empty name
\* the result has none.
C10_Candidates ==
    <<C10_SearchName>>
    \o (IF Succeeded("statements") THEN <<Outcome("statements").company_name>> ELSE <<>>)
    \o (IF Succeeded("disclosures")
        THEN <<Outcome("disclosures").items[1].company_name>> ELSE <<>>)

C10_FirstNonEmptyName ==
    Returned("analyze_company") =>
      LET named == SelectSeq(C10_Candidates, Truthy) IN
      IF named # <<>> THEN result.company_name = named[1]
      ELSE ~Truthy(result.company_name)

C10_Witness ==
    /\ Returned("analyze_company")
    /\ Truthy(companies) /\ ~Truthy(C10_SearchName)
    /\ Succeeded("statements") /\ ~Truthy(Outcome("statements").company_name)
    /\ Succeeded("disclosures")
    /\ result.company_name = Str("Toyota")

\* C11: earnings_monitor(codes) returns one entry per element of codes, in
\* the order of codes and with its code, whatever the order in which the calls
\* finished; a repeated code has its own call and its own entry.
C11_EntriesFollowCodes ==
    (fn = "earnings_monitor" /\ pc \in {"gather", "done"}) =>
      /\ Len(tasks) = Len(args.codes)
      /\ \A i \in 1..Len(tasks) : tasks[i].key = args.codes[i]
      /\ pc = "done" =>
           /\ Len(result.companies) = Len(args.codes)
           /\ \A i \in 1..Len(args.codes) : result.companies[i].code = args.codes[i]
           /\ Len(order) = Len(args.codes)
           /\ \A i \in 1..Len(args.codes) : InSeq(i, order)

C11_Witness ==
    /\ Returned("earnings_monitor")
    /\ args.codes = <<"7203", "6758">>
    /\ order = <<2, 1>>
    /\ Truthy(result.companies[1].disclosures)
    /\ tasks[2].v = TimeoutError
    /\ result.companies[1].code = "7203" /\ result.companies[2].code = "6758"

\* C12: total_disclosures is the sum of the lengths of the entries'
\* disclosures lists; an entry whose call failed or timed out adds 0.
RECURSIVE C12_Sum(_)
C12_Sum(entries) ==
    IF entries = <<>> THEN 0
    ELSE Len(Head(entries).disclosures.items) + C12_Sum(Tail(entries))

C12_TotalIsSum ==
    Returned("earnings_monitor") =>
      /\ result.total_disclosures = C12_Sum(result.companies)
      /\ \A i \in 1..Len(tasks) :
           IsException(tasks[i].v) => Len(result.companies[i].disclosures.items) = 0

C12_Witness ==
    /\ Returned("earnings_monitor")
    /\ Len(tasks) = 2
    /\ Len(result.companies[1].disclosures.items) = 2
    /\ IsException(tasks[2].v)
    /\ result.total_disclosures = 2

\* C13: sources_used of earnings_monitor is ['tdnet'] iff total_disclosures
\* is positive and is empty otherwise, decided once for the watchlist.
C13_TdnetIffTotalPositive ==
    Returned("earnings_monitor") =>
      /\ result.total_disclosures > 0 <=> result.sources_used = <<"tdnet">>
      /\ result.total_disclosures = 0 <=> result.sources_used = <<>>
      /\ result.total_disclosures >= 0

C13_Witness ==
    /\ Returned("earnings_monitor")
    /\ Len(tasks) = 2
    /\ Truthy(result.companies[1].disclosures)
    /\ Truthy(result.companies[2].disclosures)
    /\ result.sources_used = <<"tdnet">>

\* C14: earnings_monitor([]) launches no provider call and returns no
\* entries, total_disclosures 0 and empty sources_used.
C14_EmptyWatchlist ==
    (fn = "earnings_monitor" /\ args.codes = <<>>) =>
      /\ tasks = <<>>
      /\ order = <<>>
      /\ pc \in {"gather", "done"}
      /\ pc = "done" => result = [companies |-> <<>>, total_disclosures |-> 0,
                                   sources_used |-> <<>>]

C14_Witness == Returned("earnings_monitor") /\ args.codes = <<>> /\ result.companies = <<>>

\* C15: macro_snapshot: when the statistics search fails, times out or
\* returns no table, estat_data is empty and 'estat' is not in sources_used;
\* when it returns tables, estat_data holds them in order and 'estat' is in
\* sources_used.
C15_EstatOutcome ==
    Returned("macro_snapshot") =>
      /\ Failed("estat") =>
           result.estat_data = List(<<>>) /\ ~InSeq("estat", result.sources_used)
      /\ Succeeded("estat") =>
           /\ result.estat_data = Outcome("estat")
           /\ \A i \in 1..Len(result.estat_data.items) :
                result.estat_data.items[i].stats_id = i
           /\ InSeq("estat", result.sources_used)

C15_Witness ==
    /\ Returned("macro_snapshot")
    /\ Len(result.estat_data.items) = 2
    /\ result.estat_data.items[2].stats_id = 2
    /\ result.sources_used = <<"estat">>

\* C16 as stated: sources_used of macro_snapshot holds no name but 'estat'.
C16_OnlyEstat ==
    Returned("macro_snapshot") =>
      \A i \in 1..Len(result.sources_used) : result.sources_used[i] = "estat"

\* C16 amended: sources_used of macro_snapshot holds no name but 'estat' and
\* 'boj'; 'boj' is there iff a non-empty boj_dataset was given and the dataset
\* call succeeded, so without boj_dataset no name but 'estat' is there.
C16_EstatAndBoj ==
    Returned("macro_snapshot") =>
      /\ \A i \in 1..Len(result.sources_used) : result.sources_used[i] \in {"estat", "boj"}
      /\ InSeq("boj", result.sources_used) <=>
           (Truthy(args.boj_dataset) /\ Succeeded("boj"))
      /\ InSeq("boj", result.sources_used) <=> result.boj_data # None

C16_Witness ==
    /\ Returned("macro_snapshot")
    /\ args.boj_dataset = Str("fm01")
    /\ result.sources_used = <<"estat", "boj">>
    /\ result.boj_data.source = "boj"

\* The absent value of an adapter: None for the lookups of one record, the
\* empty list for the lookups of a list.
AbsentValue(a) ==
    IF a \in {"get_company_statements", "get_stock_price", "get_boj_dataset"}
    THEN None ELSE List(<<>>)

\* C17: an adapter whose backing client is not available returns its absent
\* value at once: it does not wait, does not raise and runs no step on the
\* backing client, not even its constructor.
C17_UnavailableGivesAbsentAtOnce ==
    (fn \in Adapters /\ env[fn].b = "not_installed") =>
      /\ pc = "done"
      /\ result = AbsentValue(fn)
      /\ client = <<>>

C17_Witness ==
    /\ fn = "get_latest_disclosures"
    /\ env["get_latest_disclosures"] = NotInstalled
    /\ pc = "done"
    /\ result = List(<<>>)

\* C18: no adapter propagates an exception: when the backing client is
\* available and a step of the execution raises (loading, constructing,
\* entering or leaving the context, the remote call, normalizing), the
\* adapter returns its absent value.
C18_Failures ==
    {"import_error", "construct_error", "enter_error", "client_error", "normalize_error",
     "exit_error"}

C18_FailureGivesAbsent ==
    (fn \in Adapters /\ pc # "await" /\ env[fn].b \in C18_Failures) =>
      /\ pc = "done"
      /\ result = AbsentValue(fn)

\* C19 as stated: test_connections never raises and returns one status for
\* every source of check_available_sources: 'not installed' for an
\* unavailable source, otherwise 'ok (N results)' or 'error: <reason>'.
C19_Names == {"edinet", "tdnet", "estat", "boj", "stock"}
C19_OkN == {"ok (" \o ToString(n) \o " results)" : n \in 0..SearchCap}
C19_Error ==
    {"error: " \o reason : reason \in {"edinet_mcp", "tdnet_disclosure_mcp", "estat_mcp"}}
C19_Installed(name) == env[SourcePackage(name)].b # "not_installed"

C19_OneStatusPerSource ==
    /\ fn = "test_connections" => pc # "raised"
    /\ Returned("test_connections") =>
         /\ Len(result.items) = Cardinality(C19_Names)
         /\ \A name \in C19_Names :
              Cardinality({i \in 1..Len(result.items) : result.items[i].source = name}) = 1

Stated_FourDigits(chars) == Len(chars) = 4 /\ \A k \in 1..4 : chars[k] \in AsciiDigits
Stated_Uppercase == {"A", "D", "E", "F", "G", "P", "Y"}
Stated_LetterAndFiveDigits(chars) ==
    /\ Len(chars) = 6
    /\ chars[1] \in Stated_Uppercase
    /\ \A k \in 2..6 : chars[k] \in AsciiDigits
Stated_Optional(text, Format(_)) == text = None \/ Format(text.chars)

\* A tool or command has ended without a call of an aggregator or a provider.
Rejected == surface.call = NoCall /\ tasks = <<>> /\ client = <<>>

\* C21: the analyze_japanese_company tool calls analyze_company only if code
\* is exactly 4 ASCII digits, edinet_code is absent or one uppercase letter
\* followed by 5 digits, and period is absent or exactly 4 digits; in every
\* other case it returns a structured error value and makes no provider call.
C21_ToolCallsOnlyIfValid ==
    surface.cmd = "analyze_japanese_company" =>
      \/ /\ Stated_FourDigits(surface.req.code.chars)
         /\ Stated_Optional(surface.req.edinet_code, Stated_LetterAndFiveDigits)
         /\ Stated_Optional(surface.req.period, Stated_FourDigits)
      \/ Rejected /\ pc = "done" /\ result.t = "dict"

\* C22: at both surfaces (the monitor_earnings tool and the monitor command)
\* a watchlist of more than 20 codes, or with an element that is not a
\* 4-digit stock code, is rejected before earnings_monitor is called and no
\* provider call is made; a watchlist of 1 to 20 valid codes reaches
\* earnings_monitor unchanged, in order and with duplicates kept.
C22_WatchlistValidated ==
    surface.cmd \in {"monitor_earnings", "monitor"} =>
      LET codes == surface.req.codes
          valid == \A i \in 1..Len(codes) : Stated_FourDigits(codes[i].chars)
      IN  /\ (Len(codes) > 20 \/ ~valid) => Rejected /\ pc \in {"done", "raised"}
          /\ (Len(codes) \in 1..20 /\ valid) =>
                /\ surface.call.fn = "earnings_monitor"
                /\ surface.call.args.codes = [i \in 1..Len(codes) |-> Join(codes[i].chars)]

\* C23 as stated: the get_macro_snapshot tool calls macro_snapshot if and
\* only if the keyword is non-empty and at most 200 characters long.
C23_CallsIffNonEmpty ==
    surface.cmd = "get_macro_snapshot" =>
      LET keyword == surface.req.keyword.chars
      IN  IF Len(keyword) >= 1 /\ Len(keyword) <= 200
          THEN surface.call.fn = "macro_snapshot"
          ELSE Rejected /\ pc = "done" /\ result.t = "dict"

\* C23: the get_macro_snapshot tool calls macro_snapshot, with the keyword
\* unchanged, if and only if the keyword has a character that is not white
\* space and is at most 200 characters long (200 accepted, 201 rejected);
\* otherwise it returns a structured error value and makes no provider call.
C23_CallsIffNotBlank ==
    surface.cmd = "get_macro_snapshot" =>
      LET keyword == surface.req.keyword.chars
      IN  IF (\E k \in 1..Len(keyword) : keyword[k] \notin {" ", LF}) /\ Len(keyword) <= 200
          THEN /\ pc = "delegated"
               /\ surface.call.fn = "macro_snapshot"
               /\ surface.call.args.keyword = Join(keyword)
          ELSE Rejected /\ pc = "done" /\ result.t = "dict"

C23_Witness ==
    /\ surface.cmd = "get_macro_snapshot"
    /\ Len(surface.req.keyword.chars) = 200
    /\ pc = "delegated"
    /\ surface.call.fn = "macro_snapshot"

\* C24: the analyze command never calls analyze_company with an edinet_code
\* that is not one uppercase letter followed by 5 digits or with a period
\* that is not 4 digits, and the macro command never calls macro_snapshot
\* with an empty keyword or one longer than 200 characters.
C24_CommandsValidate ==
    /\ (surface.cmd = "analyze" /\ surface.call # NoCall) =>
          /\ Stated_Optional(surface.req.edinet_code, Stated_LetterAndFiveDigits)
          /\ Stated_Optional(surface.req.period, Stated_FourDigits)
    /\ (surface.cmd = "macro" /\ surface.call # NoCall) =>
          Len(surface.req.keyword.chars) \in 1..200

\* -------------------------------------------- claims about the fan-out
\* The number of calls registered under key.
Launched(key) == Cardinality({i \in 1..Len(tasks) : tasks[i].key = key})

AsAbsent(v, absent) == IF IsException(v) THEN absent ELSE v

\* Every data field of a result is its own call's outcome, with a failure
\* read as absent, whatever the outcomes of the sibling calls.
C26_OwnOutcome ==
    /\ Returned("analyze_company") =>
         /\ result.statements = AsAbsent(Outcome("statements"), None)
         /\ result.disclosures = AsAbsent(Outcome("disclosures"), List(<<>>))
         /\ result.stock_price = AsAbsent(Outcome("stock_price"), None)
    /\ Returned("macro_snapshot") =>
         /\ result.estat_data = AsAbsent(Outcome("estat"), List(<<>>))
         /\ result.boj_data = AsAbsent(Outcome("boj"), None)
    /\ Returned("earnings_monitor") =>
         \A i \in 1..Len(tasks) :
            result.companies[i].disclosures = AsAbsent(tasks[i].v, List(<<>>))

\* C26: within one aggregation request the failure or timeout of one
\* guarded call neither cancels nor changes the outcome of a sibling call:
\* a step of the gather ends at most one call, leaves the pending calls
\* pending and the outcomes already there untouched, and in the result the
\* data of every call is its own outcome, a failed one read as absent.
C26_PartialFailureIsolation ==
    [][ /\ (pc = "gather" /\ pc' = "gather") =>
             /\ Len(tasks') = Len(tasks)
             /\ \A i \in 1..Len(tasks) : tasks[i].st = "done" => tasks'[i] = tasks[i]
             /\ Cardinality({i \in 1..Len(tasks) : tasks'[i] # tasks[i]}) <= 1
        /\ (pc = "gather" /\ pc' = "done") => tasks' = tasks /\ C26_OwnOutcome'
      ]_vars

\* The price call timed out first, the disclosures call returned after it
\* and its list is in the result.
C26_Witness ==
    /\ Returned("analyze_company")
    /\ tasks[order[1]].key = "stock_price"
    /\ Outcome("stock_price") = TimeoutError
    /\ IsException(Outcome("statements"))
    /\ Truthy(result.disclosures)
    /\ result.disclosures = Outcome("disclosures")
    /\ result.stock_price = None

\* C27: in analyze_company the company search (when made) completes before
\* any of the statements, disclosures or price calls is started, and no
\* outcome is classified and no result is returned before every launched
\* guarded call has reached a terminal outcome.
C27_JoinBarrier ==
    fn = "analyze_company" =>
      /\ pc = "search" => tasks = <<>> /\ order = <<>> /\ result = None
      /\ pc = "gather" => result = None /\ (args.edinet_code = None => companies # None)
      /\ pc = "done" =>
           /\ \A i \in 1..Len(tasks) : tasks[i].st = "done"
           /\ Len(order) = Len(tasks)
           /\ NoDuplicates(order)

C27_Witness ==
    /\ Returned("analyze_company")
    /\ args.edinet_code = None
    /\ Truthy(companies)
    /\ Len(tasks) = 4
    /\ Len(order) = 4
    /\ \A i \in 1..4 : tasks[i].st = "done"

\* The data field of the result that belongs to the i-th call, and the value
\* it has when the call contributed nothing.
FieldOf(i) ==
    IF fn = "earnings_monitor" THEN result.companies[i].disclosures
    ELSE CASE tasks[i].key = "statements" -> result.statements
           [] tasks[i].key = "disclosures" -> result.disclosures
           [] tasks[i].key = "news" -> result.news
           [] tasks[i].key = "stock_price" -> result.stock_price
           [] tasks[i].key = "estat" -> result.estat_data
           [] tasks[i].key = "boj" -> result.boj_data
AbsentField(i) ==
    IF fn = "earnings_monitor" \/ tasks[i].key \in {"disclosures", "news", "estat"}
    THEN List(<<>>) ELSE None

\* The outcome of every guarded call, in one state.
C28_Outcomes ==
    \A i \in 1..Len(tasks) :
       /\ tasks[i].st = "running" =>
            tasks[i].op = Pending /\ tasks[i].ret = Pending /\ tasks[i].v = None
       /\ (tasks[i].st = "done" /\ tasks[i].op # Cancelled) =>
            /\ tasks[i].op.t \in {"return", "raise"}
            /\ tasks[i].ret = tasks[i].op
            /\ tasks[i].v = tasks[i].op.v
       /\ (tasks[i].st = "done" /\ tasks[i].op = Cancelled) =>
            /\ tasks[i].guarded
            /\ tasks[i].ret.t = "return"
            /\ tasks[i].ret.v.cls = "TimeoutError"
            /\ tasks[i].ret.v.msg = "timed out after " \o ToString(_TASK_TIMEOUT) \o ".0s"
            /\ tasks[i].v = tasks[i].ret.v
            /\ pc = "done" => FieldOf(i) = AbsentField(i)

\* C28: if the wrapped operation completes within the deadline the guard
\* gives exactly the operation's outcome; if the deadline expires first the
\* guard cancels the operation and returns, without raising, a timeout error
\* value that carries the deadline; the outcome of a cancelled operation
\* never changes afterwards and its field of the result is absent.
C28_TimeoutGuard ==
    [][ /\ C28_Outcomes'
        /\ \A i \in 1..Len(tasks) :
              (tasks[i].st = "done" /\ tasks[i].op = Cancelled) =>
                 (Len(tasks') = Len(tasks) /\ tasks'[i] = tasks[i])
      ]_vars

C28_Witness ==
    /\ Returned("analyze_company")
    /\ Len(tasks) = 4
    /\ tasks[1].op.t = "raise" /\ IsException(tasks[1].v)
    /\ tasks[2].op.t = "return" /\ Truthy(tasks[2].op.v)
    /\ tasks[2].v = tasks[2].op.v
    /\ tasks[4].op = Cancelled
    /\ tasks[4].ret = Return(TimeoutError)
    /\ order[1] = 4
    /\ result.stock_price = None
    /\ result.disclosures = tasks[2].v

\* C29: in the result of earnings_monitor an entry whose call failed, timed
\* out or returned nothing has an empty disclosures list and an absent
\* company_name; an entry whose call returned disclosures carries that list
\* unchanged and takes company_name from its first disclosure; metrics is
\* absent in every entry; every entry is determined by its own code and its
\* own call's outcome, whatever the outcomes of the other codes.
C29_PerEntryOutcome ==
    Returned("earnings_monitor") =>
      /\ Len(result.companies) = Len(args.codes)
      /\ \A i \in 1..Len(args.codes) :
           LET entry == result.companies[i]
               op == tasks[i].op
           IN  /\ entry.code = args.codes[i]
               /\ entry.metrics = None
               /\ IF op.t = "return" /\ op.v.t = "list" /\ op.v.items # <<>>
                  THEN /\ entry.disclosures = op.v
                       /\ entry.company_name = op.v.items[1].company_name
                  ELSE /\ entry.disclosures = List(<<>>)
                       /\ entry.company_name = None

\* The first code's call returned disclosures, the second one's timed out.
C29_Witness ==
    /\ Returned("earnings_monitor")
    /\ Len(args.codes) = 2
    /\ tasks[1].op.t = "return"
    /\ Len(result.companies[1].disclosures.items) = MaxDisc
    /\ result.companies[1].company_name = Str("Toyota")
    /\ tasks[2].op = Cancelled
    /\ result.companies[2].disclosures = List(<<>>)
    /\ result.companies[2].company_name = None

\* ------------------------------------- claims about the client lifecycle
\* A client is held when it has been used and the call has run no step
\* that releases it.
Held(steps) == InSeq("call", steps) /\ ~InSeq("exit", steps)

Aggregators == {"analyze_company", "macro_snapshot", "earnings_monitor"}

\* C30 as stated: every adapter call has released its backing client by the
\* time it ends, whether it succeeded, raised or was cancelled by a timeout,
\* and after an aggregation request returns no client is still held.
C30_EveryClientReleased ==
    /\ (fn \in Adapters /\ pc \in {"done", "raised"}) => ~Held(client)
    /\ fn \in Aggregators =>
         \A i \in 1..Len(tasks) : tasks[i].st = "done" => ~Held(tasks[i].client)

\* C30: every adapter call runs its own steps on its own client; a call of
\* an adapter that opens its client as a context has left the context, and
\* so released the client, when it ends, whether it succeeded, raised or was
\* cancelled by a timeout, and after an aggregation request returns none of
\* these clients is held; get_stock_price runs no step that releases its
\* client.
C30_ContextClientsReleased ==
    /\ (fn \in Adapters /\ pc \in {"done", "raised"}) =>
         IF OpensContext(fn) THEN ~Held(client) ELSE ~InSeq("exit", client)
    /\ fn \in Aggregators =>
         \A i \in 1..Len(tasks) :
            /\ tasks[i].st = "running" => tasks[i].client = <<>>
            /\ tasks[i].st = "done" =>
                 IF AdapterOf(i) = "get_stock_price"
                 THEN ~InSeq("exit", tasks[i].client)
                 ELSE ~Held(tasks[i].client)

\* One call succeeded, one was cancelled by its deadline inside its context.
C30_Witness ==
    /\ Returned("analyze_company")
    /\ Len(tasks) = 4
    /\ tasks[1].op = Cancelled
    /\ tasks[1].client = <<"construct", "enter", "call", "exit">>
    /\ tasks[2].op.t = "return" /\ Truthy(tasks[2].v)
    /\ tasks[2].client = <<"construct", "enter", "call", "exit">>
    /\ tasks[4].client = <<>>

\* ------------------------------------------ claims about test_connections
\* C31: when a source is available but its backing client fails during the
\* probe call, the status test_connections reports for that source is
\* 'error: <reason>' and not an 'ok' status.
C31_ClientFailureGivesError ==
    Returned("test_connections") =>
      \A i \in 1..Len(result.items) :
         env[SourcePackage(result.items[i].source)] = ClientFails =>
            /\ result.items[i].status \in C19_Error
            /\ result.items[i].status \notin C19_OkN

\* The adapter calls made for a source, and the remote calls they made.
C32_AdapterCalls(name) == {i \in 1..Len(tasks) : tasks[i].key = name}
C32_RemoteCalls(name) ==
    {<<i, k>> \in (1..Len(tasks)) \X (1..4) :
        tasks[i].key = name /\ k <= Len(tasks[i].client) /\ tasks[i].client[k] = "call"}
C32_StatusOf(name) ==
    result.items[CHOOSE i \in 1..Len(result.items) : result.items[i].source = name].status

Locals ==
    [fn |-> fn, pc |-> pc, args |-> args, edinet_code |-> edinet_code,
     company_name |-> company_name, companies |-> companies, tasks |-> tasks,
     order |-> order, result |-> result]

\* The locals of a call that has not started.
FreshLocals ==
    [fn |-> "idle", pc |-> "idle", args |-> None, edinet_code |-> None,
     company_name |-> None, companies |-> None, tasks |-> <<>>, order |-> <<>>,
     result |-> None]

\* Faulty variant of Resume: the task set is one object of the module, so
\* the resumed call sees the tasks of the call that ran before it.
Resume_sharedTasks(l) ==
    /\ fn' = l.fn
    /\ pc' = l.pc
    /\ args' = l.args
    /\ edinet_code' = l.edinet_code
    /\ company_name' = l.company_name
    /\ companies' = l.companies
    /\ tasks' = tasks
    /\ order' = l.order
    /\ result' = l.result

\* The event loop resumes the coroutine whose locals are l.
Resume(l) ==
    /\ fn' = l.fn
    /\ pc' = l.pc
    /\ args' = l.args
    /\ edinet_code' = l.edinet_code
    /\ company_name' = l.company_name
    /\ companies' = l.companies
    /\ tasks' = l.tasks
    /\ order' = l.order
    /\ result' = l.result

\* The running call is suspended at its await, or has returned, and the
\* event loop runs the other call: the one suspended before or, if there is
\* none yet, a new one.
switch ==
    /\ fn \in Aggregators
    /\ pc \in {"gather", "done"}
    /\ other' = Locals
    /\ Resume(IF other = NoRequest THEN FreshLocals ELSE other)
    /\ UNCHANGED <<env, client, previous, surface>>

\* The providers of the two calls: each guarded call fails or returns data.
IsoProvidersFor(i) ==
    IF fn = "earnings_monitor" \/ tasks[i].key = "disclosures"
    THEN {ClientFails, Ok(<<Disclosure(Str("Toyota"))>>)}
    ELSE CASE tasks[i].key = "news" -> {Ok(None)}
           [] tasks[i].key = "stock_price" -> {ClientFails, Ok(Quote("7203"))}

IsoNext ==
    \/ call_analyze_company("7203", Str(""))
    \/ call_earnings_monitor(<<"7203">>)
    \/ analyze_company_returns
    \/ earnings_monitor_returns
    \/ pc = "gather"
         /\ \E i \in 1..Len(tasks) : \E p \in IsoProvidersFor(i) : task_completes(i, p)
    \/ pc = "gather" /\ \E i \in 1..Len(tasks) : task_times_out(i)
    \/ switch

IsoSpec == Init /\ [][IsoNext]_vars

\* The result of the running call is the one its own arguments and the
\* outcomes of its own guarded calls give.
C33_OwnResult ==
    /\ C4_SourcesIffSuccess
    /\ C8_CodePassthrough
    /\ C13_TdnetIffTotalPositive
    /\ C26_OwnOutcome
    /\ C29_PerEntryOutcome

MaxItems == 22
MaxFound == 12

\* Statements whose tables have up to MaxItems line items each.
LongStatements ==
    { StatementOf(Str("Toyota Motor"), income, balance) :
        income \in UNION {LineItems(len) : len \in 0..MaxItems},
        balance \in UNION {LineItems(len) : len \in 0..MaxItems} }

\* Search answers of up to MaxFound companies, each with its own codes, in
\* ascending and in descending order.
FoundCompany(i) == Company("E" \o ToString(i), Str("KK " \o ToString(i)), ToString(i))
LongMatchLists ==
    UNION { {[i \in 1..len |-> FoundCompany(i)], [i \in 1..len |-> FoundCompany(len + 1 - i)]} :
              len \in 0..MaxFound }

\* Direct calls of the two adapters that cut the client's answer.
TruncNext ==
    \/ pc = "idle" /\ \E d \in LongStatements : call_adapter("get_company_statements", Ok(d))
    \/ pc = "idle" /\ \E d \in LongMatchLists : call_adapter("search_companies_edinet", Ok(d))
    \/ adapter_returns

TruncSpec == Init /\ [][TruncNext]_vars

\* out is the first n elements of whole, or whole if it has fewer.
C34_LeadingPrefix(out, whole, n) ==
    /\ Len(out) = (IF Len(whole) <= n THEN Len(whole) ELSE n)
    /\ \A i \in 1..Len(out) : out[i] = whole[i]

\* C34: the statements adapter returns the first 20 income-statement items
\* and the first 20 balance-sheet items of the client's tables, the search
\* adapter the first 10 companies of the client's answer, each in the
\* client's order; a shorter list is returned whole.
C34_Truncation ==
    /\ (fn = "get_company_statements" /\ pc = "done" /\ env[fn].b = "ok") =>
          /\ C34_LeadingPrefix(result.income_statement, env[fn].data.income_statement, 20)
          /\ C34_LeadingPrefix(result.balance_sheet, env[fn].data.balance_sheet, 20)
    /\ (fn = "search_companies_edinet" /\ pc = "done" /\ env[fn].b = "ok") =>
          /\ Len(result.items) <= 10
          /\ Len(env[fn].data) <= 10 => Len(result.items) = Len(env[fn].data)
          /\ \A i \in 1..Len(result.items) :
                /\ result.items[i].edinet_code = env[fn].data[i].edinet_code
                /\ result.items[i].name = env[fn].data[i].name
                /\ result.items[i].ticker = env[fn].data[i].ticker

\* A statement with 22 income-statement items in reverse order and 19
\* balance-sheet items: 20 and 19 items are returned.
C34_Witness ==
    /\ fn = "get_company_statements" /\ pc = "done" /\ env[fn].b = "ok"
    /\ Len(env[fn].data.income_statement) = 22
    /\ env[fn].data.income_statement[1] = LineItem(22)
    /\ Len(result.income_statement) = 20
    /\ result.income_statement[20] = LineItem(3)
    /\ Len(env[fn].data.balance_sheet) = 19
    /\ result.balance_sheet = env[fn].data.balance_sheet

\* The 'source' fields of the records present in the returned result.
C35_RecordSources ==
    IF fn = "analyze_company"
    THEN (IF result.statements # None THEN {result.statements.source} ELSE {})
           \cup {result.disclosures.items[i].source : i \in 1..Len(result.disclosures.items)}
           \cup (IF result.stock_price # None THEN {result.stock_price.source} ELSE {})
    ELSE {result.estat_data.items[i].source : i \in 1..Len(result.estat_data.items)}
           \cup (IF result.boj_data # None THEN {result.boj_data.source} ELSE {})

\* C35: in a result of analyze_company or macro_snapshot, the names in
\* sources_used are the 'source' fields of the records present in the
\* result: every present record's 'source' is listed, and every listed name
\* is the 'source' of a present record.
C35_ProvenanceMatchesRecords ==
    (Returned("analyze_company") \/ Returned("macro_snapshot")) =>
       {result.sources_used[i] : i \in 1..Len(result.sources_used)} = C35_RecordSources

\* C36: every call of analyze_company and of macro_snapshot launches a
\* guarded news call, and whatever the arguments and the providers do, the
\* returned news field is the empty list and "news" is not in sources_used.
C36_NewsNeverContributes ==
    /\ (fn \in {"analyze_company", "macro_snapshot"} /\ pc \in {"gather", "done"}) =>
          \E i \in 1..Len(tasks) : tasks[i].key = "news" /\ tasks[i].guarded
    /\ (Returned("analyze_company") \/ Returned("macro_snapshot")) =>
          /\ result.news = List(<<>>)
          /\ ~InSeq("news", result.sources_used)

\* analyze_company returned with every other source contributing.
C36_Witness ==
    /\ Returned("analyze_company")
    /\ \E i \in 1..Len(tasks) :
          tasks[i].key = "news" /\ tasks[i].guarded /\ tasks[i].v = List(<<>>)
    /\ result.statements # None
    /\ Truthy(result.disclosures)
    /\ result.stock_price # None
    /\ result.news = List(<<>>)

====
